---- MODULE Spec2Model ----
(***************************************************************************)
(* State-machine model of src/js/script.js: the library readiness wait,   *)
(* the background-image preload negotiator (aggressivePreloadImages) and  *)
(* its four call sites (Spec), the point-text projector (PoseSpec,        *)
(* PoseMemorySpec), the header menu and the consultation modal (UiSpec),  *)
(* the throttled resize handler (ThrottleSpec), the hero video's         *)
(* autoplay attempts and hidden controls (VideoSpec) and debounce         *)
(* (DebounceSpec).                                                        *)
(*                                                                         *)
(* One action is one browser task (an event dispatch, a timer or an image *)
(* callback) together with the microtasks it drains: a promise settled in *)
(* a task runs the continuations awaiting it before the next task starts. *)
(***************************************************************************)
EXTENDS Integers, Sequences, FiniteSets, TLC

\* ---------------------------------------------------------------- bounds
\* calls of aggressivePreloadImages explored over the page's lifetime
MaxInvocations == 3

\* '.point .ani_text p' elements a page may hold
MaxTexts == 5
\* calls of initPointAnimation explored
MaxInitCalls == 2
\* advances of the clock explored by the throttled resize handler
MaxAdvances == 5
\* calls of playVideo explored, made or still waiting for a media event
MaxPlays == 3
\* calls of a debounced function explored
MaxDebouncedCalls == 3

\* ------------------------------------------------------------- constants
Libraries == {"gsap", "AOS", "ScrollTrigger"}

WebpPath == <<"./images/point_bg", ".webp">>
JpgPath == <<"./images/point_bg", ".jpg">>
NoPath == <<>>

\* String.prototype.includes on a path, by its parts
includes(path, part) == \E k \in DOMAIN path : path[k] = part

\* the template literal `url('${imagePath}')`
Url(imagePath) == <<"url('">> \o imagePath \o <<"')">>

VARIABLES
  protocol,          \* window.location.protocol
  webpDecodes,       \* whether the browser decodes the 2x2 WebP probe image
  hasPointBox,       \* document.querySelector('.point_box') is not null
  hasPoint,          \* document.querySelector('.point') is not null
  libs,              \* the global libraries defined so far
  hidden,            \* document.hidden
  dclPc,             \* position of the async DOMContentLoaded handler
  pollTimer,         \* a 100ms checkLibraries timer is pending
  inv,               \* the invocations of aggressivePreloadImages, in call order
  pointBox,          \* class list and inline style of .point_box
  willChangeTimers,  \* number of pending 1000ms timers of applyBackgroundImage
  observing,         \* pointObserver observes the .point section
  installed,         \* page features wired by the DOMContentLoaded handler
  unhandled,         \* invocations whose rejection reached no handler
  loadFired,         \* the window load event has been dispatched
  innerWidth,        \* window.innerWidth
  numTexts,          \* number of '.point .ani_text p' elements in the page
  texts,             \* per element: the pose last set, the focus class, and
                     \* the gsap.set calls made on it by the last task
  triggers,          \* the ScrollTriggers created by initPointAnimation
  progress,          \* self.progress of the last update, in 1/UnitsPerPi
  lastOp,            \* what the last initPointAnimation / update task did
  initCalls,         \* calls of initPointAnimation so far
  remembered,        \* an earlier update kept for comparison: its progress
                     \* and what it wrote
  header,            \* the hamburger menu and the header: isMenuOpen, the
                     \* elements initHeader writes, and what it reads
  modal,             \* the consultation modal, its form and the last alerts
  throttled,         \* Date.now(), lastCall of the throttled handleResize
                     \* and what its calls did
  video,             \* the hero video: play() attempts and their listeners
  debounced          \* a function wrapped by debounce: its timers and runs

vars == <<protocol, webpDecodes, hasPointBox, hasPoint, libs, hidden, dclPc,
          pollTimer, inv, pointBox, willChangeTimers, observing,
          installed, unhandled, loadFired, innerWidth, numTexts, texts,
          triggers, progress, lastOp, initCalls, remembered, header, modal,
          throttled, video, debounced>>

\* the state of the point-text projector
projector == <<innerWidth, numTexts, texts, triggers, progress, lastOp,
               initCalls, remembered>>

\* the state of the preload negotiator and of page initialisation, without
\* the libraries
preload == <<protocol, webpDecodes, hasPointBox, hasPoint, hidden, dclPc,
             pollTimer, inv, pointBox, willChangeTimers, observing,
             installed, unhandled, loadFired>>

env == <<protocol, webpDecodes, hasPointBox, hasPoint>>

\* the state of the header, the modal, the throttled resize handler, the
\* hero video and the debounced function
widgets == <<header, modal, throttled, video, debounced>>

Callers == {"dcl", "observer", "load", "visibility"}

Invocations == 1..Len(inv)

\* ------------------------------------------- numbers of the point projector
\* Angles are held exactly, in units of pi/UnitsPerPi (30 degrees): every
\* base angle index/(totalTexts-1)*pi with totalTexts <= 4 is a whole number
\* of units, and progress is delivered in steps of 1/UnitsPerPi.
UnitsPerPi == 6
\* Math.PI / 6 and the 0.3 of the focus test, in microradians
MicroRadPerUnit == 523599
FocusWindow == 300000
\* the 180 of the degree conversion, and the 4 of slice(0, 4)
DegPerPi == 180
MaxPointTexts == 4

\* viewport widths tried, on both sides of every breakpoint
Widths == {480, 481, 768, 769, 1200, 1201}

\* a JavaScript number that is an angle or a count: NaN or a whole value
Num(v) == [nan |-> FALSE, v |-> v]
NaN == [nan |-> TRUE, v |-> 0]

\* a JavaScript number that is a length: NaN or (r + s * sqrt(3)) / 2
Coord(r, s) == [nan |-> FALSE, r |-> r, s |-> s]
NaNCoord == [nan |-> TRUE, r |-> 0, s |-> 0]

\* a / b where b divides a; 0 / 0 is NaN (no other division by zero occurs:
\* totalTexts - 1 = 0 only with index = 0 and rotationProgress = 0)
jsDivide(a, b) ==
  IF a.nan \/ b.nan THEN NaN
  ELSE IF b.v = 0 THEN NaN
  ELSE Num(a.v \div b.v)

jsMinus(a, b) == IF a.nan \/ b.nan THEN NaN ELSE Num(a.v - b.v)

\* a % m of JavaScript (m > 0): the result has the sign of a
jsRemainder(a, m) ==
  IF a.nan THEN NaN
  ELSE IF a.v >= 0 THEN Num(a.v % m) ELSE Num(-((-a.v) % m))

\* Math.sin and Math.cos of an angle in units of 30 degrees
jsSin(a) ==
  IF a.nan THEN NaNCoord
  ELSE LET n == a.v % (2 * UnitsPerPi)
       IN CASE n \in {0, 6} -> Coord(0, 0)
            [] n \in {1, 5} -> Coord(1, 0)
            [] n \in {2, 4} -> Coord(0, 1)
            [] n = 3 -> Coord(2, 0)
            [] n \in {7, 11} -> Coord(-1, 0)
            [] n \in {8, 10} -> Coord(0, -1)
            [] n = 9 -> Coord(-2, 0)

jsCos(a) == IF a.nan THEN NaNCoord ELSE jsSin(Num(a.v + 3))

\* c * radius
jsScale(c, radius) ==
  IF c.nan THEN NaNCoord ELSE Coord(c.r * radius, c.s * radius)

\* -((angle * 180) / Math.PI), in degrees
jsDegreesNegated(a) ==
  IF a.nan THEN NaN ELSE Num(-((a.v * DegPerPi) \div UnitsPerPi))

\* an element no pose was set on
TextAtRest ==
  [y |-> Coord(0, 0), z |-> Coord(0, 0), rotateX |-> Num(0),
   focus |-> FALSE, sets |-> 0]

\* stage: 0 when kept, 1 once another progress was delivered after it, 2 once
\* its own progress was delivered again after that
NothingRemembered ==
  [progress |-> -1, texts |-> [i \in {} |-> TextAtRest], stage |-> 0]

\* the projector before initPointAnimation has run
ProjectorAtRest ==
  /\ texts = [i \in 0..(numTexts - 1) |-> TextAtRest]
  /\ triggers = <<>>
  /\ progress = 0
  /\ lastOp = "none"
  /\ initCalls = 0
  /\ remembered = NothingRemembered

\* ------------------------------------- header, modal, throttle and video
\* Strings of the page are kept as written in the source, except the Korean
\* ones, which are given in English.
CloseBtnPng == "./images/close_btn.png"
HamBtnPng == "./images/ham_btn.png"
\* lines 267-268, 297-298
AltClose == "close menu"
AltButton == "menu button"
LabelClose == "close menu"
LabelOpen == "open menu"
White == "var(--bs-white)"
Black == "var(--bs-black)"
Shadow == "0 2px 6px rgba(0,0,0,0.1)"

\* the header before any tween: its style comes from the style sheet
NoTween == [backgroundColor |-> "", boxShadow |-> "", y |-> "", color |-> ""]

\* the header of the main page at the top, menu closed (line 257), with the
\* attributes closeMenu restores
HeaderAtRest ==
  [main |-> TRUE, zone |-> "top", isMenuOpen |-> FALSE, hamGnb |-> {},
   hamIcon |-> [src |-> HamBtnPng, alt |-> AltButton],
   ariaLabel |-> LabelOpen, style |-> NoTween]

\* the modal closed, its form empty, no alert raised
ModalAtRest ==
  [active |-> FALSE, overflow |-> "", consultType |-> "", inputName |-> <<>>,
   inputPhone |-> <<>>, agreeAll |-> FALSE, agreeTwo |-> FALSE,
   agreeThird |-> FALSE, alerts |-> <<>>]

\* the 200 of throttle(..., 200), line 244
ResizeDelay == 200
\* Date.now() when the page is loaded, in ms; any value of at least
\* ResizeDelay behaves like today's
PageLoadTimes == {200, 1000000}

\* the wrapper returned by throttle, never called: lastCall = 0 (line 55)
ThrottleAtRest(t0) ==
  [now |-> t0, advances |-> 0, lastCall |-> 0, outcome |-> "none",
   refreshes |-> 0]

\* the attributes hideVideoControls sets, lines 847-849
InlineAttributes ==
  {"playsinline", "webkit-playsinline", "disablepictureinpicture"}

\* the hero video once initVideoControls has hidden its controls and set
\* up its listeners and observer, before attemptVideoAutoplay is called.
\* records: MutationRecords queued for the controls observer; hides: runs of
\* hideVideoControls made by the observer since the last change from outside
VideoAtRest ==
  [readyState |-> 0, loadedmetadata |-> 0, canplay |-> 0, attempts |-> <<>>,
   attributes |-> InlineAttributes, appearance |-> "none", records |-> 0,
   hides |-> 0]

\* the events userInteractionHandler is registered for, lines 891-893
InteractionEvents == {"touchstart", "click", "scroll"}

\* delays and arguments a debounced function is given
DebounceDelays == {200, 400}
DebounceArgs == {"first", "second"}

\* the wrapper returned by debounce(func, delay), never called: timeoutId
\* is undefined (line 67)
DebounceAtRest(delay) ==
  [now |-> 0, advances |-> 0, delay |-> delay, calls |-> 0, timeoutId |-> 0,
   timers |-> {}, lastCall |-> [at |-> 0, args |-> ""], runs |-> 0,
   lastRun |-> [at |-> 0, args |-> ""]]

WidgetsAtRest ==
  /\ debounced = DebounceAtRest(200)
  /\ header = HeaderAtRest
  /\ modal = ModalAtRest
  /\ throttled = ThrottleAtRest(1000000)
  /\ video = VideoAtRest

Init ==
  /\ WidgetsAtRest
  /\ innerWidth = 1201
  /\ numTexts = MaxPointTexts
  /\ ProjectorAtRest
  /\ protocol \in {"file:", "https:"}
  /\ webpDecodes \in BOOLEAN
  /\ hasPointBox \in BOOLEAN
  /\ hasPoint \in BOOLEAN
  /\ libs \in {{}, Libraries}
  /\ hidden \in BOOLEAN
  /\ dclPc = "idle"
  /\ pollTimer = FALSE
  /\ inv = <<>>
  /\ pointBox = [classList |-> {},
                 style |-> [transform |-> "", willChange |-> "",
                            backgroundImage |-> <<>>,
                            backgroundColor |-> "", opacity |-> ""]]
  /\ willChangeTimers = 0
  /\ observing = FALSE
  /\ installed = {}
  /\ unhandled = {}
  /\ loadFired = FALSE

\* ------------------------------------------------- 3. image optimisation

\* supportsWebP: the probe image's onload/onerror resolves webP.height === 2
supportsWebP == webpDecodes

\* applyBackgroundImage without its setTimeout
applyBackgroundImage_NoTimer(box, timers, imagePath) ==
  IF ~hasPointBox
    THEN [box |-> box, timers |-> timers]
    ELSE [box |-> [box EXCEPT !.style.transform = "translate3d(0,0,0)",
                              !.style.willChange = "background-image",
                              !.style.backgroundImage = Url(imagePath),
                              !.classList = @ \cup {"bg-loaded"}],
          timers |-> timers]

\* applyBackgroundImage on the element `box` with `timers` pending timeouts
applyBackgroundImage(box, timers, imagePath) ==
  IF ~hasPointBox
    THEN [box |-> box, timers |-> timers]
    ELSE [box |-> [box EXCEPT !.style.transform = "translate3d(0,0,0)",
                              !.style.willChange = "background-image",
                              !.style.backgroundImage = Url(imagePath),
                              !.classList = @ \cup {"bg-loaded"}],
          timers |-> timers + 1]

\* loadFallbackImage within the invocation record r: a new Image with an
\* onload handler only, whose src is set to fallbackPath
loadFallbackImage(r, fallbackPath) ==
  [r EXCEPT !.fallback = "pending",
            !.fallbackPath = fallbackPath,
            !.loads = Append(@, fallbackPath)]

\* aggressivePreloadImages without the file: guard
aggressivePreloadImages_NoGuard(caller) ==
  [caller |-> caller,
   probe |-> "pending",
   isWebPSupported |-> FALSE,
   bgImagePath |-> NoPath,
   preloadLink |-> NoPath,
   primary |-> "none",
   fallback |-> "none",
   fallbackPath |-> NoPath,
   loads |-> <<>>,
   result |-> "pending",
   continuation |-> IF caller \in {"load", "visibility"} THEN "none"
                    ELSE "waiting"]

\* aggressivePreloadImages up to its first suspension: the file: guard
\* returns at once, otherwise the call waits for supportsWebP
aggressivePreloadImages(caller) ==
  [caller |-> caller,
   probe |-> IF protocol = "file:" THEN "none" ELSE "pending",
   isWebPSupported |-> FALSE,
   bgImagePath |-> NoPath,
   preloadLink |-> NoPath,
   primary |-> "none",
   fallback |-> "none",
   fallbackPath |-> NoPath,
   loads |-> <<>>,
   result |-> IF protocol = "file:" THEN "skipped" ELSE "pending",
   continuation |-> IF caller \in {"load", "visibility"} THEN "none"
                    ELSE IF protocol = "file:" THEN "completed"
                    ELSE "waiting"]

\* calls still explored at the guarded call sites; one is kept for the
\* call of the DOMContentLoaded handler until it has been made
slots ==
  MaxInvocations - Len(inv) - (IF dclPc \in {"idle", "waitLibs"} THEN 1 ELSE 0)

\* the caller-side guard of the observer, load and visibilitychange sites
needsPreload == hasPointBox /\ "bg-loaded" \notin pointBox.classList

\* --------------------------------------------- 4. DOMContentLoaded handler

\* lines 182-246: observer, header, modal, AOS, requestAnimationFrame, resize
RestOfInit ==
  /\ dclPc' = "done"
  /\ observing' = hasPoint
  /\ installed' = {"header", "modal", "aos", "animationFrame", "resize"}

\* the promise of invocation i (record r after the callback) settles with
\* `outcome`, and the continuation awaiting it runs; box is .point_box after
\* the callback
Settle(i, r, outcome, box) ==
  LET c == r.caller
      threw == outcome = "rejected" /\ c = "observer"
      cont == IF c \in {"load", "visibility"} THEN "none"
              ELSE IF threw THEN "threw" ELSE "completed"
  IN /\ inv' = [inv EXCEPT ![i] = [r EXCEPT !.result = outcome,
                                            !.continuation = cont]]
     /\ unhandled' = IF outcome = "rejected" /\ c # "dcl"
                       THEN unhandled \cup {i} ELSE unhandled
     /\ IF c = "dcl"
          THEN RestOfInit /\ pointBox' = box
          ELSE IF c = "observer" /\ ~threw
            THEN /\ pointBox' = [box EXCEPT !.classList = @ \cup {"bg-preloaded"}]
                 /\ observing' = FALSE
                 /\ UNCHANGED <<dclPc, installed>>
            ELSE /\ pointBox' = box
                 /\ UNCHANGED <<dclPc, observing, installed>>

\* lines 168-180, run once waitForLibraries has resolved
AfterLibraries ==
  /\ pointBox' = IF hasPointBox
                   THEN [pointBox EXCEPT !.style.backgroundColor = "#000612",
                                         !.style.opacity = "1"]
                   ELSE pointBox
  /\ LET r == aggressivePreloadImages("dcl")
     IN /\ inv' = Append(inv, r)
        /\ IF r.result # "pending"
             THEN RestOfInit
             ELSE dclPc' = "awaitPreload" /\ UNCHANGED <<observing, installed>>

\* checkLibraries that does not look for AOS
checkLibraries_NoAOS ==
  IF {"gsap", "ScrollTrigger"} \subseteq libs
    THEN pollTimer' = FALSE /\ AfterLibraries
    ELSE /\ pollTimer' = TRUE
         /\ dclPc' = "waitLibs"
         /\ UNCHANGED <<inv, pointBox, observing, installed>>

\* checkLibraries of waitForLibraries
checkLibraries ==
  IF Libraries \subseteq libs
    THEN pollTimer' = FALSE /\ AfterLibraries
    ELSE /\ pollTimer' = TRUE
         /\ dclPc' = "waitLibs"
         /\ UNCHANGED <<inv, pointBox, observing, installed>>

LibraryLoaded(l) ==
  /\ l \notin libs
  /\ libs' = libs \cup {l}
  /\ UNCHANGED <<env, projector, widgets, hidden, dclPc, pollTimer, inv, pointBox,
                 willChangeTimers, observing, installed, unhandled,
                 loadFired>>

\* the DOMContentLoaded handler without the await of initializeGSAP
DOMContentLoaded_NoWait ==
  /\ dclPc = "idle"
  /\ pollTimer' = FALSE
  /\ AfterLibraries
  /\ UNCHANGED <<env, projector, widgets, libs, hidden, willChangeTimers, unhandled,
                 loadFired>>

DOMContentLoaded ==
  /\ dclPc = "idle"
  /\ checkLibraries
  /\ UNCHANGED <<env, projector, widgets, libs, hidden, willChangeTimers, unhandled,
                 loadFired>>

PollTimerFires ==
  /\ pollTimer
  /\ checkLibraries
  /\ UNCHANGED <<env, projector, widgets, libs, hidden, willChangeTimers, unhandled,
                 loadFired>>

\* ------------------------------------------- aggressivePreloadImages steps

\* ProbeSettles choosing the modern path whatever the probe returned
ProbeSettles_AlwaysWebp(i) ==
  /\ inv[i].probe = "pending"
  /\ inv' = [inv EXCEPT ![i] = [@ EXCEPT !.probe = "done",
                                         !.isWebPSupported = supportsWebP,
                                         !.bgImagePath = WebpPath,
                                         !.preloadLink = WebpPath,
                                         !.primary = "pending",
                                         !.loads = Append(@, WebpPath)]]
  /\ UNCHANGED <<env, projector, widgets, libs, hidden, dclPc, pollTimer, pointBox,
                 willChangeTimers, observing, installed, unhandled,
                 loadFired>>

\* ProbeSettles starting the fallback load together with the primary load
ProbeSettles_Concurrent(i) ==
  /\ inv[i].probe = "pending"
  /\ LET isWebPSupported == supportsWebP
         bgImagePath == IF isWebPSupported THEN WebpPath ELSE JpgPath
         r == [inv[i] EXCEPT !.probe = "done",
                             !.isWebPSupported = isWebPSupported,
                             !.bgImagePath = bgImagePath,
                             !.preloadLink = bgImagePath,
                             !.primary = "pending",
                             !.loads = Append(@, bgImagePath)]
     IN inv' = [inv EXCEPT ![i] = IF isWebPSupported
                                    THEN loadFallbackImage(r, JpgPath)
                                    ELSE r]
  /\ UNCHANGED <<env, projector, widgets, libs, hidden, dclPc, pollTimer, pointBox,
                 willChangeTimers, observing, installed, unhandled,
                 loadFired>>

\* lines 121-153: the probe resolves, the hint is appended, img.src is set
ProbeSettles(i) ==
  /\ inv[i].probe = "pending"
  /\ LET isWebPSupported == supportsWebP
         bgImagePath == IF isWebPSupported THEN WebpPath ELSE JpgPath
     IN inv' = [inv EXCEPT ![i] = [@ EXCEPT !.probe = "done",
                                            !.isWebPSupported = isWebPSupported,
                                            !.bgImagePath = bgImagePath,
                                            !.preloadLink = bgImagePath,
                                            !.primary = "pending",
                                            !.loads = Append(@, bgImagePath)]]
  /\ UNCHANGED <<env, projector, widgets, libs, hidden, dclPc, pollTimer, pointBox,
                 willChangeTimers, observing, installed, unhandled,
                 loadFired>>

\* img.onload, lines 138-142
PrimaryOnload(i) ==
  /\ inv[i].primary = "pending"
  /\ LET a == applyBackgroundImage(pointBox, willChangeTimers, inv[i].bgImagePath)
     IN /\ willChangeTimers' = a.timers
        /\ Settle(i, [inv[i] EXCEPT !.primary = "loaded"], "resolved", a.box)
  /\ UNCHANGED <<env, projector, widgets, libs, hidden, pollTimer, loadFired>>

\* img.onerror rejecting without trying the fallback
PrimaryOnerror_NoFallback(i) ==
  /\ inv[i].primary = "pending"
  /\ Settle(i, [inv[i] EXCEPT !.primary = "failed"], "rejected", pointBox)
  /\ UNCHANGED <<env, projector, widgets, libs, hidden, pollTimer, willChangeTimers,
                 loadFired>>

\* img.onerror loading the fallback whatever path failed
PrimaryOnerror_AlwaysFallback(i) ==
  /\ inv[i].primary = "pending"
  /\ inv' = [inv EXCEPT ![i] =
              loadFallbackImage([inv[i] EXCEPT !.primary = "failed"], JpgPath)]
  /\ UNCHANGED <<pointBox, dclPc, observing, installed, unhandled>>
  /\ UNCHANGED <<env, projector, widgets, libs, hidden, pollTimer, willChangeTimers,
                 loadFired>>

\* img.onerror, lines 144-151
PrimaryOnerror(i) ==
  /\ inv[i].primary = "pending"
  /\ LET r == [inv[i] EXCEPT !.primary = "failed"]
     IN IF r.isWebPSupported /\ includes(r.bgImagePath, ".webp")
          THEN /\ inv' = [inv EXCEPT ![i] = loadFallbackImage(r, JpgPath)]
               /\ UNCHANGED <<pointBox, dclPc, observing, installed, unhandled>>
          ELSE Settle(i, r, "rejected", pointBox)
  /\ UNCHANGED <<env, projector, widgets, libs, hidden, pollTimer, willChangeTimers,
                 loadFired>>

\* fallbackImg.onload that leaves a background applied earlier in place
FallbackOnload_KeepsFirst(i) ==
  /\ inv[i].fallback = "pending"
  /\ LET a == IF "bg-loaded" \in pointBox.classList
                THEN [box |-> pointBox, timers |-> willChangeTimers]
                ELSE applyBackgroundImage(pointBox, willChangeTimers,
                                          inv[i].fallbackPath)
     IN /\ willChangeTimers' = a.timers
        /\ pointBox' = a.box
  /\ inv' = [inv EXCEPT ![i].fallback = "loaded"]
  /\ UNCHANGED <<env, projector, widgets, libs, hidden, dclPc, pollTimer, observing,
                 installed, unhandled, loadFired>>

\* fallbackImg.onload, line 105
FallbackOnload(i) ==
  /\ inv[i].fallback = "pending"
  /\ LET a == applyBackgroundImage(pointBox, willChangeTimers, inv[i].fallbackPath)
     IN /\ willChangeTimers' = a.timers
        /\ pointBox' = a.box
  /\ inv' = [inv EXCEPT ![i].fallback = "loaded"]
  /\ UNCHANGED <<env, projector, widgets, libs, hidden, dclPc, pollTimer, observing,
                 installed, unhandled, loadFired>>

\* the fallback image fails to load: fallbackImg has no onerror handler
FallbackError(i) ==
  /\ inv[i].fallback = "pending"
  /\ inv' = [inv EXCEPT ![i].fallback = "failed"]
  /\ UNCHANGED <<env, projector, widgets, libs, hidden, dclPc, pollTimer, pointBox,
                 willChangeTimers, observing, installed, unhandled,
                 loadFired>>

\* the 1000ms timeout of applyBackgroundImage, lines 97-99
WillChangeTimerFires ==
  /\ willChangeTimers > 0
  /\ willChangeTimers' = willChangeTimers - 1
  /\ pointBox' = [pointBox EXCEPT !.style.willChange = "auto"]
  /\ UNCHANGED <<env, projector, widgets, libs, hidden, dclPc, pollTimer, inv, observing,
                 installed, unhandled, loadFired>>

\* ------------------------------------------------------ other call sites

\* pointObserver callback with an intersecting entry, lines 189-201
Intersect ==
  /\ observing
  /\ needsPreload => slots > 0
  /\ IF needsPreload
       THEN LET r == aggressivePreloadImages("observer")
            IN /\ inv' = Append(inv, r)
               /\ IF r.result # "pending"
                    THEN /\ pointBox' = [pointBox EXCEPT
                                           !.classList = @ \cup {"bg-preloaded"}]
                         /\ observing' = FALSE
                    ELSE UNCHANGED <<pointBox, observing>>
       ELSE /\ observing' = FALSE
            /\ UNCHANGED <<inv, pointBox>>
  /\ UNCHANGED <<env, projector, widgets, libs, hidden, dclPc, pollTimer, willChangeTimers,
                 installed, unhandled, loadFired>>

\* window load listener, lines 736-741; load follows DOMContentLoaded
WindowLoad ==
  /\ dclPc # "idle"
  /\ ~loadFired
  /\ needsPreload => slots > 0
  /\ loadFired' = TRUE
  /\ inv' = IF needsPreload THEN Append(inv, aggressivePreloadImages("load"))
            ELSE inv
  /\ UNCHANGED <<env, projector, widgets, libs, hidden, dclPc, pollTimer, pointBox,
                 willChangeTimers, observing, installed, unhandled>>

\* visibilitychange listener, lines 744-751
VisibilityChange ==
  /\ (hidden /\ needsPreload) => slots > 0
  /\ hidden' = ~hidden
  /\ inv' = IF ~hidden' /\ needsPreload
              THEN Append(inv, aggressivePreloadImages("visibility"))
              ELSE inv
  /\ UNCHANGED <<env, projector, widgets, libs, dclPc, pollTimer, pointBox,
                 willChangeTimers, observing, installed, unhandled,
                 loadFired>>

Next ==
  \/ \E l \in Libraries : LibraryLoaded(l)
  \/ DOMContentLoaded
  \/ PollTimerFires
  \/ \E i \in Invocations : ProbeSettles(i)
  \/ \E i \in Invocations : PrimaryOnload(i)
  \/ \E i \in Invocations : PrimaryOnerror(i)
  \/ \E i \in Invocations : FallbackOnload(i)
  \/ \E i \in Invocations : FallbackError(i)
  \/ WillChangeTimerFires
  \/ Intersect
  \/ WindowLoad
  \/ VisibilityChange

Spec == Init /\ [][Next]_vars

\* ------------------------------------- 8. point section rotation animation

\* getPointRadius with exclusive thresholds
getPointRadius_Exclusive ==
  IF innerWidth < 480 THEN 70
  ELSE IF innerWidth < 768 THEN 75
  ELSE IF innerWidth < 1200 THEN 100
  ELSE 120

\* getPointRadius, lines 536-542, reading window.innerWidth
getPointRadius ==
  IF innerWidth <= 480 THEN 70
  ELSE IF innerWidth <= 768 THEN 75
  ELSE IF innerWidth <= 1200 THEN 100
  ELSE 120

\* gsap.utils.toArray('.point .ani_text p').slice(0, 4).length
pointTextsLength == IF numTexts < MaxPointTexts THEN numTexts ELSE MaxPointTexts

\* (index / (totalTexts - 1)) * Math.PI
baseAngleOf(index, totalTexts) ==
  jsDivide(Num(index * UnitsPerPi), Num(totalTexts - 1))

\* initializePointTexts: one gsap.set per element of pointTexts
initializePointTexts(tx, totalTexts, currentRadius) ==
  [index \in DOMAIN tx |->
     IF index >= totalTexts THEN tx[index]
     ELSE LET angle == baseAngleOf(index, totalTexts)
          IN [tx[index] EXCEPT !.y = jsScale(jsSin(angle), currentRadius),
                               !.z = jsScale(jsCos(angle), currentRadius),
                               !.rotateX = jsDegreesNegated(angle),
                               !.sets = @ + 1]]

\* baseAngle - (rotationProgress * Math.PI) / (totalTexts - 1), with
\* rotationProgress = progress * (totalTexts - 1) and progress = k / 6
currentAngleOf(index, totalTexts, k) ==
  jsMinus(baseAngleOf(index, totalTexts),
          jsDivide(Num(k * (totalTexts - 1)), Num(totalTexts - 1)))

\* ((currentAngle % (2 pi)) + 2 pi) % (2 pi)
normalizedAngleOf(currentAngle) ==
  LET inner == jsRemainder(currentAngle, 2 * UnitsPerPi)
  IN jsRemainder(IF inner.nan THEN NaN ELSE Num(inner.v + 2 * UnitsPerPi),
                 2 * UnitsPerPi)

\* the focus test with a window of 0.6 rad on either side
isFocusOf_Wide(normalizedAngle) ==
  /\ ~normalizedAngle.nan
  /\ \/ normalizedAngle.v * MicroRadPerUnit < 2 * FocusWindow
     \/ normalizedAngle.v * MicroRadPerUnit >
          2 * UnitsPerPi * MicroRadPerUnit - 2 * FocusWindow

\* normalizedAngle < 0.3 || normalizedAngle > Math.PI * 2 - 0.3
isFocusOf(normalizedAngle) ==
  /\ ~normalizedAngle.nan
  /\ \/ normalizedAngle.v * MicroRadPerUnit < FocusWindow
     \/ normalizedAngle.v * MicroRadPerUnit >
          2 * UnitsPerPi * MicroRadPerUnit - FocusWindow

\* onUpdate with sine and cosine exchanged
onUpdate_Swapped(tx, totalTexts, radius, k) ==
  [index \in DOMAIN tx |->
     IF index >= totalTexts THEN tx[index]
     ELSE LET currentAngle == currentAngleOf(index, totalTexts, k)
          IN [tx[index] EXCEPT
                !.y = jsScale(jsCos(currentAngle), radius),
                !.z = jsScale(jsSin(currentAngle), radius),
                !.rotateX = jsDegreesNegated(currentAngle),
                !.sets = @ + 1,
                !.focus = isFocusOf(normalizedAngleOf(currentAngle))]]

\* onUpdate that never removes the focus class
onUpdate_KeepsFocus(tx, totalTexts, radius, k) ==
  [index \in DOMAIN tx |->
     IF index >= totalTexts THEN tx[index]
     ELSE LET currentAngle == currentAngleOf(index, totalTexts, k)
          IN [tx[index] EXCEPT
                !.y = jsScale(jsSin(currentAngle), radius),
                !.z = jsScale(jsCos(currentAngle), radius),
                !.rotateX = jsDegreesNegated(currentAngle),
                !.sets = @ + 1,
                !.focus = @ \/ isFocusOf(normalizedAngleOf(currentAngle))]]

\* onUpdate testing the focus window on the angle as it is
onUpdate_NotNormalized(tx, totalTexts, radius, k) ==
  [index \in DOMAIN tx |->
     IF index >= totalTexts THEN tx[index]
     ELSE LET currentAngle == currentAngleOf(index, totalTexts, k)
          IN [tx[index] EXCEPT
                !.y = jsScale(jsSin(currentAngle), radius),
                !.z = jsScale(jsCos(currentAngle), radius),
                !.rotateX = jsDegreesNegated(currentAngle),
                !.sets = @ + 1,
                !.focus = isFocusOf(currentAngle)]]

\* onUpdate subtracting rotationProgress * pi without dividing it
onUpdate_NotDivided(tx, totalTexts, radius, k) ==
  [index \in DOMAIN tx |->
     IF index >= totalTexts THEN tx[index]
     ELSE LET currentAngle ==
                jsMinus(baseAngleOf(index, totalTexts),
                        Num(k * (totalTexts - 1)))
          IN [tx[index] EXCEPT
                !.y = jsScale(jsSin(currentAngle), radius),
                !.z = jsScale(jsCos(currentAngle), radius),
                !.rotateX = jsDegreesNegated(currentAngle),
                !.sets = @ + 1,
                !.focus = isFocusOf(normalizedAngleOf(currentAngle))]]

\* onUpdate of the ScrollTrigger, lines 572-607, at progress k / 6
onUpdate(tx, totalTexts, radius, k) ==
  [index \in DOMAIN tx |->
     IF index >= totalTexts THEN tx[index]
     ELSE LET currentAngle == currentAngleOf(index, totalTexts, k)
          IN [tx[index] EXCEPT
                !.y = jsScale(jsSin(currentAngle), radius),
                !.z = jsScale(jsCos(currentAngle), radius),
                !.rotateX = jsDegreesNegated(currentAngle),
                !.sets = @ + 1,
                !.focus = isFocusOf(normalizedAngleOf(currentAngle))]]

\* every ScrollTrigger created so far runs its onUpdate, in creation order
RECURSIVE updateAll(_, _, _)
updateAll(tx, ts, k) ==
  IF ts = <<>> THEN tx
  ELSE updateAll(onUpdate(tx, Head(ts).totalTexts, Head(ts).radius, k),
                 Tail(ts), k)

\* a new task starts: no gsap.set call made yet
newTask(tx) == [index \in DOMAIN tx |-> [tx[index] EXCEPT !.sets = 0]]

\* initPointAnimation without the library check
initPointAnimation_Unchecked ==
  /\ initCalls < MaxInitCalls
  /\ initCalls' = initCalls + 1
  /\ IF pointTextsLength = 0
       THEN lastOp' = "noTexts" /\ UNCHANGED <<texts, triggers, remembered>>
       ELSE /\ texts' = initializePointTexts(newTask(texts), pointTextsLength,
                                             getPointRadius)
            /\ triggers' = Append(triggers, [radius |-> getPointRadius,
                                             totalTexts |-> pointTextsLength])
            /\ remembered' = NothingRemembered
            /\ lastOp' = "setup"
  /\ UNCHANGED <<preload, widgets, libs, innerWidth, numTexts, progress>>

\* initPointAnimation, lines 525-610
initPointAnimation ==
  /\ initCalls < MaxInitCalls
  /\ initCalls' = initCalls + 1
  /\ IF "gsap" \notin libs \/ "ScrollTrigger" \notin libs
       THEN lastOp' = "notLoaded" /\ UNCHANGED <<texts, triggers, remembered>>
       ELSE IF pointTextsLength = 0
         THEN lastOp' = "noTexts" /\ UNCHANGED <<texts, triggers, remembered>>
         ELSE /\ texts' = initializePointTexts(newTask(texts), pointTextsLength,
                                               getPointRadius)
              /\ triggers' = Append(triggers, [radius |-> getPointRadius,
                                               totalTexts |-> pointTextsLength])
              /\ remembered' = NothingRemembered
              /\ lastOp' = "setup"
  /\ UNCHANGED <<preload, widgets, libs, innerWidth, numTexts, progress>>

\* a scroll-progress tick: ScrollTrigger delivers progress k / 6
Tick(k) ==
  /\ triggers # <<>>
  /\ texts' = updateAll(newTask(texts), triggers, k)
  /\ progress' = k
  /\ lastOp' = "update"
  /\ remembered' =
       IF remembered.progress = -1 THEN remembered
       ELSE IF remembered.stage = 0 /\ k # remembered.progress
         THEN [remembered EXCEPT !.stage = 1]
       ELSE IF remembered.stage = 1 /\ k = remembered.progress
         THEN [remembered EXCEPT !.stage = 2]
       ELSE remembered
  /\ UNCHANGED <<preload, widgets, libs, innerWidth, numTexts, triggers, initCalls>>

\* the same tick, kept for comparison with later ticks
TickRemembered(k) ==
  /\ triggers # <<>>
  /\ remembered = NothingRemembered
  /\ texts' = updateAll(newTask(texts), triggers, k)
  /\ progress' = k
  /\ lastOp' = "update"
  /\ remembered' = [progress |-> k, texts |-> texts', stage |-> 0]
  /\ UNCHANGED <<preload, widgets, libs, innerWidth, numTexts, triggers, initCalls>>

\* the viewport is resized to width w; handleResize (lines 236-244) only
\* refreshes AOS and ScrollTrigger
Resize(w) ==
  /\ w # innerWidth
  /\ innerWidth' = w
  /\ UNCHANGED <<preload, widgets, libs, numTexts, texts, triggers, progress, lastOp,
                 initCalls, remembered>>

\* the preload negotiator and page initialisation, idle
PreloadAtRest ==
  /\ protocol = "https:"
  /\ webpDecodes = TRUE
  /\ hasPointBox = TRUE
  /\ hasPoint = TRUE
  /\ hidden = FALSE
  /\ dclPc = "idle"
  /\ pollTimer = FALSE
  /\ inv = <<>>
  /\ pointBox = [classList |-> {},
                 style |-> [transform |-> "", willChange |-> "",
                            backgroundImage |-> <<>>,
                            backgroundColor |-> "", opacity |-> ""]]
  /\ willChangeTimers = 0
  /\ observing = FALSE
  /\ installed = {}
  /\ unhandled = {}
  /\ loadFired = FALSE

PoseInit ==
  /\ WidgetsAtRest
  /\ innerWidth \in Widths
  /\ numTexts \in 0..MaxTexts
  /\ ProjectorAtRest
  \* AOS is not read by the projector
  /\ libs \in {S \cup {"AOS"} : S \in SUBSET {"gsap", "ScrollTrigger"}}
  /\ PreloadAtRest

PoseNext ==
  \/ \E l \in Libraries : LibraryLoaded(l)
  \/ initPointAnimation
  \/ \E k \in 0..UnitsPerPi : Tick(k)
  \/ \E w \in Widths : Resize(w)

PoseSpec == PoseInit /\ [][PoseNext]_vars

\* The projector with one tick kept for comparison, on a narrow and a wide
\* viewport.
MemoryWidths == {480, 1201}

PoseMemoryInit ==
  /\ WidgetsAtRest
  /\ innerWidth \in MemoryWidths
  /\ numTexts \in 0..MaxTexts
  /\ ProjectorAtRest
  /\ libs = Libraries
  /\ PreloadAtRest

PoseMemoryNext ==
  \/ initPointAnimation
  \/ \E k \in 0..UnitsPerPi : Tick(k)
  \/ \E k \in 0..UnitsPerPi : TickRemembered(k)
  \/ \E w \in MemoryWidths : Resize(w)

PoseMemorySpec == PoseMemoryInit /\ [][PoseMemoryNext]_vars

\* ------------------------------------------------------- 5. header (menu)

\* closeMenu, lines 294-317
closeMenu_KeepsLabel(h) ==
  [h EXCEPT !.hamGnb = @ \ {"active"},
            !.hamIcon = [src |-> HamBtnPng, alt |-> AltButton],
            !.isMenuOpen = FALSE,
            !.style = IF h.main /\ h.zone = "top" /\ "gsap" \in libs
                        THEN [@ EXCEPT !.backgroundColor = "transparent",
                                       !.boxShadow = "none",
                                       !.color = White]
                        ELSE @]

closeMenu(h) ==
  [h EXCEPT !.hamGnb = @ \ {"active"},
            !.hamIcon = [src |-> HamBtnPng, alt |-> AltButton],
            !.ariaLabel = LabelOpen,
            !.isMenuOpen = FALSE,
            \* window.scrollY < 20 is the header being above its trigger
            !.style = IF h.main /\ h.zone = "top" /\ "gsap" \in libs
                        THEN [@ EXCEPT !.backgroundColor = "transparent",
                                       !.boxShadow = "none",
                                       !.color = White]
                        ELSE @]

\* click on .ham_btn, lines 260-285
HamBtnClick ==
  /\ header' =
       IF ~header.isMenuOpen
         THEN [header EXCEPT
                 !.isMenuOpen = TRUE,
                 !.hamGnb = @ \cup {"active"},
                 !.hamIcon = [src |-> CloseBtnPng, alt |-> AltClose],
                 !.ariaLabel = LabelClose,
                 !.style = IF header.main /\ "gsap" \in libs
                             THEN [@ EXCEPT !.backgroundColor = White,
                                            !.boxShadow = Shadow,
                                            !.color = Black]
                             ELSE @]
         ELSE closeMenu(header)
  /\ UNCHANGED <<preload, projector, libs, debounced, modal, throttled, video>>

\* click on a link of .ham_gnb, line 290
MenuLinkClick ==
  /\ header' = closeMenu(header)
  /\ UNCHANGED <<preload, projector, libs, debounced, modal, throttled, video>>

\* the header's ScrollTrigger exists (line 320)
hasHeaderTrigger == header.main /\ "ScrollTrigger" \in libs

\* the page is scrolled down past 20px: onEnter, lines 323-339
ScrollPastStart ==
  /\ header.zone = "top"
  /\ header' =
       [header EXCEPT
          !.zone = "inside",
          !.style = IF hasHeaderTrigger /\ "gsap" \in libs
                      THEN [y |-> "0", backgroundColor |-> White,
                            boxShadow |-> Shadow, color |-> Black]
                      ELSE @]
  /\ UNCHANGED <<preload, projector, libs, debounced, modal, throttled, video>>

\* the page is scrolled to its end: onLeave, lines 340-349
ScrollPastEnd ==
  /\ header.zone = "inside"
  /\ header' =
       [header EXCEPT
          !.zone = "past",
          !.style = IF hasHeaderTrigger /\ "gsap" \in libs
                      THEN [@ EXCEPT !.y = "-80"]
                      ELSE @]
  /\ UNCHANGED <<preload, projector, libs, debounced, modal, throttled, video>>

\* the page is scrolled back from its end: onEnterBack, lines 350-361
ScrollBackFromEnd ==
  /\ header.zone = "past"
  /\ header' =
       [header EXCEPT
          !.zone = "inside",
          !.style = IF hasHeaderTrigger /\ "gsap" \in libs
                      THEN [@ EXCEPT !.y = "0", !.backgroundColor = White,
                                     !.boxShadow = Shadow]
                      ELSE @]
  /\ UNCHANGED <<preload, projector, libs, debounced, modal, throttled, video>>

\* the page is scrolled back above 20px: onLeaveBack, lines 362-378
ScrollBackToTop ==
  /\ header.zone = "inside"
  /\ header' =
       [header EXCEPT
          !.zone = "top",
          !.style = IF hasHeaderTrigger /\ "gsap" \in libs
                      THEN [y |-> "0", backgroundColor |-> "transparent",
                            boxShadow |-> "none", color |-> White]
                      ELSE @]
  /\ UNCHANGED <<preload, projector, libs, debounced, modal, throttled, video>>

\* -------------------------------------------------------- 6. modal

\* the alerts of the submit handler, lines 466, 471, 476, 481, 486
MsgSelectType == "Please select a consultation item."
MsgEnterName == "Please enter your name."
MsgEnterPhone == "Please enter your mobile number."
MsgAgreeTerms == "Please agree to the required terms."
MsgCompleted == "Your consultation request is complete."

\* values a visitor gives the fields: the select's value, and the name and
\* the phone as sequences of characters
ConsultTypes == {"", "insurance"}
Names == {<<>>, <<" ">>, <<"k">>, <<" ", "k">>}
Phones == {<<>>, <<" ">>, <<"0">>}

\* String.prototype.trim
RECURSIVE trimStart(_)
trimStart(str) ==
  IF str # <<>> /\ Head(str) = " " THEN trimStart(Tail(str)) ELSE str

RECURSIVE trimEnd(_)
trimEnd(str) ==
  IF str # <<>> /\ str[Len(str)] = " "
    THEN trimEnd(SubSeq(str, 1, Len(str) - 1))
    ELSE str

trim(str) == trimEnd(trimStart(str))

\* openConsultationModal, lines 385-391
openConsultationModal ==
  /\ modal' = [modal EXCEPT !.active = TRUE, !.overflow = "hidden",
                            !.alerts = <<>>]
  /\ UNCHANGED <<preload, projector, libs, debounced, header, throttled, video>>

\* closeConsultationModal that leaves the body's overflow as it is
closeConsultationModal_KeepsLock(m) ==
  [m EXCEPT !.active = FALSE, !.consultType = "",
            !.inputName = <<>>, !.inputPhone = <<>>, !.agreeAll = FALSE,
            !.agreeTwo = FALSE, !.agreeThird = FALSE]

\* closeConsultationModal, lines 394-417: form.reset() and then every field
\* and every checkbox of the modal cleared
closeConsultationModal(m) ==
  [m EXCEPT !.active = FALSE, !.overflow = "", !.consultType = "",
            !.inputName = <<>>, !.inputPhone = <<>>, !.agreeAll = FALSE,
            !.agreeTwo = FALSE, !.agreeThird = FALSE]

\* click on #closeBtn, line 449
CloseBtnClick ==
  /\ modal' = [closeConsultationModal(modal) EXCEPT !.alerts = <<>>]
  /\ UNCHANGED <<preload, projector, libs, debounced, header, throttled, video>>

\* click on .modal_bg, line 454
ModalBgClick ==
  /\ modal' = [closeConsultationModal(modal) EXCEPT !.alerts = <<>>]
  /\ UNCHANGED <<preload, projector, libs, debounced, header, throttled, video>>

\* keydown with key Escape, lines 492-496
EscapeKey ==
  /\ modal' = IF modal.active
                THEN [closeConsultationModal(modal) EXCEPT !.alerts = <<>>]
                ELSE [modal EXCEPT !.alerts = <<>>]
  /\ UNCHANGED <<preload, projector, libs, debounced, header, throttled, video>>

\* the submit handler testing the raw name and phone
SubmitClick_NoTrim ==
  /\ modal' =
       IF modal.consultType = ""
         THEN [modal EXCEPT !.alerts = <<MsgSelectType>>]
       ELSE IF modal.inputName = <<>>
         THEN [modal EXCEPT !.alerts = <<MsgEnterName>>]
       ELSE IF modal.inputPhone = <<>>
         THEN [modal EXCEPT !.alerts = <<MsgEnterPhone>>]
       ELSE IF ~modal.agreeTwo \/ ~modal.agreeThird
         THEN [modal EXCEPT !.alerts = <<MsgAgreeTerms>>]
       ELSE [closeConsultationModal(modal) EXCEPT !.alerts = <<MsgCompleted>>]
  /\ UNCHANGED <<preload, projector, libs, debounced, header, throttled, video>>

\* click on #submitBtn, lines 459-488
SubmitClick ==
  /\ modal' =
       IF modal.consultType = ""
         THEN [modal EXCEPT !.alerts = <<MsgSelectType>>]
       ELSE IF trim(modal.inputName) = <<>>
         THEN [modal EXCEPT !.alerts = <<MsgEnterName>>]
       ELSE IF trim(modal.inputPhone) = <<>>
         THEN [modal EXCEPT !.alerts = <<MsgEnterPhone>>]
       ELSE IF ~modal.agreeTwo \/ ~modal.agreeThird
         THEN [modal EXCEPT !.alerts = <<MsgAgreeTerms>>]
       ELSE [closeConsultationModal(modal) EXCEPT !.alerts = <<MsgCompleted>>]
  /\ UNCHANGED <<preload, projector, libs, debounced, header, throttled, video>>

\* the visitor toggles #agree_all_consult: change handler, lines 432-436
ChangeAgreeAll ==
  /\ modal' = [modal EXCEPT !.agreeAll = ~modal.agreeAll,
                            !.agreeTwo = ~modal.agreeAll,
                            !.agreeThird = ~modal.agreeAll,
                            !.alerts = <<>>]
  /\ UNCHANGED <<preload, projector, libs, debounced, header, throttled, video>>

\* #agree_two_consult toggled without the handler updating agree-all
ChangeAgreeTwo_NoUpdate ==
  /\ modal' = [modal EXCEPT !.agreeTwo = ~modal.agreeTwo, !.alerts = <<>>]
  /\ UNCHANGED <<preload, projector, libs, debounced, header, throttled, video>>

\* the visitor toggles #agree_two_consult: change handler, lines 440-443
ChangeAgreeTwo ==
  /\ modal' = [modal EXCEPT !.agreeTwo = ~modal.agreeTwo,
                            !.agreeAll = ~modal.agreeTwo /\ modal.agreeThird,
                            !.alerts = <<>>]
  /\ UNCHANGED <<preload, projector, libs, debounced, header, throttled, video>>

\* the visitor toggles #agree_third_consult: change handler, lines 440-443
ChangeAgreeThird ==
  /\ modal' = [modal EXCEPT !.agreeThird = ~modal.agreeThird,
                            !.agreeAll = modal.agreeTwo /\ ~modal.agreeThird,
                            !.alerts = <<>>]
  /\ UNCHANGED <<preload, projector, libs, debounced, header, throttled, video>>

\* the visitor edits a field; no handler of the script listens
SelectType(v) ==
  /\ v # modal.consultType
  /\ modal' = [modal EXCEPT !.consultType = v, !.alerts = <<>>]
  /\ UNCHANGED <<preload, projector, libs, debounced, header, throttled, video>>

TypeName(v) ==
  /\ v # modal.inputName
  /\ modal' = [modal EXCEPT !.inputName = v, !.alerts = <<>>]
  /\ UNCHANGED <<preload, projector, libs, debounced, header, throttled, video>>

TypePhone(v) ==
  /\ v # modal.inputPhone
  /\ modal' = [modal EXCEPT !.inputPhone = v, !.alerts = <<>>]
  /\ UNCHANGED <<preload, projector, libs, debounced, header, throttled, video>>

\* The page once initHeader and initModal have run (lines 209, 212): the
\* libraries are loaded; the page is the main page or another one; the icon
\* and label of the markup are those closeMenu restores or others; the
\* modal is closed and its form empty.
UiInit ==
  /\ debounced = DebounceAtRest(200)
  /\ header \in {[HeaderAtRest EXCEPT !.main = m, !.hamIcon = i, !.ariaLabel = l] :
                   m \in BOOLEAN,
                   i \in {[src |-> HamBtnPng, alt |-> AltButton],
                          [src |-> "./images/menu.png", alt |-> ""]},
                   l \in {LabelOpen, ""}}
  /\ modal = ModalAtRest
  /\ throttled = ThrottleAtRest(1000000)
  /\ video = VideoAtRest
  /\ innerWidth = 1201
  /\ numTexts = MaxPointTexts
  /\ ProjectorAtRest
  /\ libs = Libraries
  /\ PreloadAtRest

UiNext ==
  \/ HamBtnClick
  \/ MenuLinkClick
  \/ ScrollPastStart
  \/ ScrollPastEnd
  \/ ScrollBackFromEnd
  \/ ScrollBackToTop
  \/ openConsultationModal
  \/ CloseBtnClick
  \/ ModalBgClick
  \/ EscapeKey
  \/ SubmitClick
  \/ ChangeAgreeAll
  \/ ChangeAgreeTwo
  \/ ChangeAgreeThird
  \/ \E v \in ConsultTypes : SelectType(v)
  \/ \E v \in Names : TypeName(v)
  \/ \E v \in Phones : TypePhone(v)

UiSpec == UiInit /\ [][UiNext]_vars

\* ------------------------------------------------ 2. throttle and resize

\* time that passes between two events, in ms: just below, at and above the
\* delay, and a moment
Elapses == {1, 199, 200, 201}

\* the wrapper of throttle with a strict comparison
throttle_Strict(t) ==
  IF t.now - t.lastCall > ResizeDelay
    THEN [t EXCEPT !.lastCall = t.now, !.outcome = "ran",
                   !.refreshes = @ + 1]
    ELSE [t EXCEPT !.outcome = "dropped"]

\* a call of the function returned by throttle(func, delay), lines 56-62;
\* func is the body of handleResize, which refreshes AOS and ScrollTrigger
throttle(t) ==
  IF t.now - t.lastCall >= ResizeDelay
    THEN [t EXCEPT !.lastCall = t.now, !.outcome = "ran",
                   !.refreshes = @ + 1]
    ELSE [t EXCEPT !.outcome = "dropped"]

\* a resize event: the window gets width w and handleResize is called
ResizeEvent(w) ==
  /\ innerWidth' = w
  /\ throttled' = throttle(throttled)
  /\ UNCHANGED <<preload, libs, header, modal, video, debounced, numTexts, texts,
                 triggers, progress, lastOp, initCalls, remembered>>

\* d ms pass
Advance(d) ==
  /\ throttled.advances < MaxAdvances
  /\ throttled' = [throttled EXCEPT !.now = @ + d, !.advances = @ + 1]
  /\ UNCHANGED <<preload, projector, libs, debounced, header, modal, video>>

\* The page once the resize listener is installed (line 246).
ThrottleInit ==
  /\ debounced = DebounceAtRest(200)
  /\ throttled \in {ThrottleAtRest(t0) : t0 \in PageLoadTimes}
  /\ header = HeaderAtRest
  /\ modal = ModalAtRest
  /\ video = VideoAtRest
  /\ innerWidth \in MemoryWidths
  /\ numTexts = MaxPointTexts
  /\ ProjectorAtRest
  /\ libs = Libraries
  /\ PreloadAtRest

ThrottleNext ==
  \/ \E w \in MemoryWidths : ResizeEvent(w)
  \/ \E d \in Elapses : Advance(d)

ThrottleSpec == ThrottleInit /\ [][ThrottleNext]_vars

\* ------------------------------------------------- 3. hero video autoplay

\* hideVideoControls that sets the controls attribute to "false" instead of
\* removing it
hideVideoControls_SetsFalse(v) ==
  [v EXCEPT !.attributes = @ \cup {"controls"} \cup InlineAttributes,
            !.appearance = "none",
            !.records = @ + 1]

\* hideVideoControls, lines 838-857. removeAttribute('controls') queues a
\* MutationRecord only when the attribute is there; controls = false then
\* finds it absent; the other attributes and the style are not in the
\* observer's attributeFilter (line 943)
hideVideoControls(v) ==
  [v EXCEPT !.attributes = (@ \ {"controls"}) \cup InlineAttributes,
            !.appearance = "none",
            !.records = IF "controls" \in v.attributes THEN @ + 1 ELSE @]

\* no MutationRecord is queued: the observer's callback is a microtask and
\* runs before any other task
quiet == video.records = 0

\* something other than this script sets the controls attribute (the
\* browser, another script); setting it queues a record whether or not it
\* was there
ControlsSetOutside ==
  /\ quiet
  /\ video' = [video EXCEPT !.attributes = @ \cup {"controls"},
                            !.records = @ + 1,
                            !.hides = 0]
  /\ UNCHANGED <<preload, projector, libs, debounced, header, modal, throttled>>

\* the MutationObserver callback of line 940 takes the queued records and
\* calls hideVideoControls
ObserverCallback ==
  /\ video.records > 0
  /\ video' = [hideVideoControls([video EXCEPT !.records = 0])
                 EXCEPT !.hides = @ + 1]
  /\ UNCHANGED <<preload, projector, libs, debounced, header, modal, throttled>>

\* playVideo, lines 864-896: heroVideo.play() returns a pending promise
playVideo(attempts) ==
  Append(attempts, [play |-> "pending", listeners |-> {}, retries |-> 0,
                    retry |-> "none"])

RECURSIVE playVideoTimes(_, _)
playVideoTimes(attempts, n) ==
  IF n = 0 THEN attempts ELSE playVideoTimes(playVideo(attempts), n - 1)

\* calls of playVideo made so far or still to be made by a registered
\* loadedmetadata or canplay listener
plays == Len(video.attempts) + video.loadedmetadata + video.canplay

\* attemptVideoAutoplay, lines 860-905, called by initVideoControls and by
\* its visibilitychange listener
attemptVideoAutoplay ==
  /\ quiet
  /\ plays + (IF video.readyState >= 1 THEN 1 ELSE 2) <= MaxPlays
  /\ video' = IF video.readyState >= 1
                THEN [video EXCEPT !.attempts = playVideo(@)]
                ELSE [video EXCEPT !.loadedmetadata = @ + 1,
                                   !.canplay = @ + 1]
  /\ UNCHANGED <<preload, projector, libs, debounced, header, modal, throttled>>

\* the video fires loadedmetadata: hideVideoControls (line 935), then every
\* once-listener runs playVideo
LoadedMetadata ==
  /\ quiet
  /\ video.readyState = 0
  /\ video' = [hideVideoControls(video) EXCEPT
                 !.readyState = 1,
                 !.attempts = playVideoTimes(@, video.loadedmetadata),
                 !.loadedmetadata = 0]
  /\ UNCHANGED <<preload, projector, libs, debounced, header, modal, throttled>>

\* the video fires canplay: hideVideoControls (line 935), then every
\* once-listener runs playVideo
CanPlay ==
  /\ quiet
  /\ video.readyState >= 1
  /\ video' = [hideVideoControls(video) EXCEPT
                 !.readyState = 3,
                 !.attempts = playVideoTimes(@, video.canplay),
                 !.canplay = 0]
  /\ UNCHANGED <<preload, projector, libs, debounced, header, modal, throttled>>

\* the promise of play() of attempt i settles, lines 868-894; on rejection
\* userInteractionHandler is registered for the three events
PlaySettles(i, fulfilled) ==
  /\ quiet
  /\ video.attempts[i].play = "pending"
  /\ video' = [hideVideoControls(video) EXCEPT
                 !.attempts[i] =
                   IF fulfilled
                     THEN [@ EXCEPT !.play = "fulfilled"]
                     ELSE [@ EXCEPT !.play = "rejected",
                                    !.listeners = InteractionEvents]]
  /\ UNCHANGED <<preload, projector, libs, debounced, header, modal, throttled>>

\* the document's event e with only the { once: true } removal
Interaction_OnceOnly(e) ==
  /\ quiet
  /\ video' = [video EXCEPT
                 !.attempts =
                   [i \in DOMAIN @ |->
                      IF e \in @[i].listeners
                        THEN [@[i] EXCEPT !.retries = @ + 1,
                                          !.retry = "pending",
                                          !.listeners = @ \ {e}]
                        ELSE @[i]]]
  /\ UNCHANGED <<preload, projector, libs, debounced, header, modal, throttled>>

\* the document fires touchstart, click or scroll: every
\* userInteractionHandler registered for it runs, lines 878-888
Interaction(e) ==
  /\ quiet
  /\ video' = [video EXCEPT
                 !.attempts =
                   [i \in DOMAIN @ |->
                      IF e \in @[i].listeners
                        THEN [@[i] EXCEPT !.retries = @ + 1,
                                          !.retry = "pending",
                                          !.listeners = {}]
                        ELSE @[i]]]
  /\ UNCHANGED <<preload, projector, libs, debounced, header, modal, throttled>>

\* the promise of the retried play() settles, lines 881-882
RetrySettles(i, fulfilled) ==
  /\ quiet
  /\ video.attempts[i].retry = "pending"
  /\ video' = [hideVideoControls(video) EXCEPT
                 !.attempts[i].retry =
                   IF fulfilled THEN "fulfilled" ELSE "rejected"]
  /\ UNCHANGED <<preload, projector, libs, debounced, header, modal, throttled>>

\* The main page with its hero video, before initVideoControls calls
\* attemptVideoAutoplay; the video has its metadata already or not.
VideoInit ==
  /\ debounced = DebounceAtRest(200)
  /\ video \in {[VideoAtRest EXCEPT !.readyState = r] : r \in {0, 1, 3}}
  /\ header = HeaderAtRest
  /\ modal = ModalAtRest
  /\ throttled = ThrottleAtRest(1000000)
  /\ innerWidth = 1201
  /\ numTexts = MaxPointTexts
  /\ ProjectorAtRest
  /\ libs = Libraries
  /\ PreloadAtRest

VideoNext ==
  \/ attemptVideoAutoplay
  \/ LoadedMetadata
  \/ CanPlay
  \/ \E i \in DOMAIN video.attempts : \E fulfilled \in BOOLEAN :
       PlaySettles(i, fulfilled)
  \/ \E e \in InteractionEvents : Interaction(e)
  \/ \E i \in DOMAIN video.attempts : \E fulfilled \in BOOLEAN :
       RetrySettles(i, fulfilled)
  \/ ControlsSetOutside
  \/ ObserverCallback

VideoSpec == VideoInit /\ [][VideoNext]_vars

\* --------------------------------------------------------- 2. debounce

\* the wrapper of debounce without clearTimeout
debounce_NoClear(b, args) ==
  [b EXCEPT !.calls = @ + 1,
            !.timers = @ \cup {[id |-> b.calls + 1, due |-> b.now + b.delay,
                                args |-> args]},
            !.timeoutId = b.calls + 1,
            !.lastCall = [at |-> b.now, args |-> args],
            !.runs = 0]

\* a call of the function returned by debounce(func, delay), lines 68-71:
\* clearTimeout(timeoutId), then a new timer holding the call's arguments
debounce(b, args) ==
  [b EXCEPT !.calls = @ + 1,
            !.timers = {t \in @ : t.id # b.timeoutId}
                         \cup {[id |-> b.calls + 1, due |-> b.now + b.delay,
                                args |-> args]},
            !.timeoutId = b.calls + 1,
            !.lastCall = [at |-> b.now, args |-> args],
            !.runs = 0]

\* the debounced function is called with args
DebouncedCall(args) ==
  /\ debounced.calls < MaxDebouncedCalls
  /\ debounced' = debounce(debounced, args)
  /\ UNCHANGED <<preload, projector, libs, header, modal, throttled, video>>

\* a timer set by the wrapper fires, at its due time or later:
\* func.apply(this, args), line 70
DebounceTimerFires(t) ==
  /\ t \in debounced.timers
  /\ debounced.now >= t.due
  /\ debounced' = [debounced EXCEPT
                     !.timers = @ \ {t},
                     !.runs = @ + 1,
                     !.lastRun = [at |-> debounced.now, args |-> t.args]]
  /\ UNCHANGED <<preload, projector, libs, header, modal, throttled, video>>

\* d ms pass
DebounceAdvance(d) ==
  /\ debounced.advances < MaxAdvances
  /\ debounced' = [debounced EXCEPT !.now = @ + d, !.advances = @ + 1]
  /\ UNCHANGED <<preload, projector, libs, header, modal, throttled, video>>

\* A function wrapped by debounce, not called yet.
DebounceInit ==
  /\ debounced \in {DebounceAtRest(delay) : delay \in DebounceDelays}
  /\ header = HeaderAtRest
  /\ modal = ModalAtRest
  /\ throttled = ThrottleAtRest(1000000)
  /\ video = VideoAtRest
  /\ innerWidth = 1201
  /\ numTexts = MaxPointTexts
  /\ ProjectorAtRest
  /\ libs = Libraries
  /\ PreloadAtRest

DebounceNext ==
  \/ \E args \in DebounceArgs : DebouncedCall(args)
  \/ \E t \in debounced.timers : DebounceTimerFires(t)
  \/ \E d \in Elapses : DebounceAdvance(d)

DebounceSpec == DebounceInit /\ [][DebounceNext]_vars

\* ====================================================== properties

\* img.onload or fallbackImg.onload of invocation i fires in this step, and
\* the path it loaded
PrimarySucceeds(i) == inv[i].primary = "pending" /\ inv'[i].primary = "loaded"
FallbackSucceeds(i) == inv[i].fallback = "pending" /\ inv'[i].fallback = "loaded"

\* C1: when the primary modern-format load has failed, the invocation is Done
\* (resolved) once the fallback load has succeeded and Failed (rejected) once
\* the fallback load has failed, so its result does not stay pending.
C1_FallbackSettles ==
  \A i \in Invocations :
    (inv[i].primary = "failed" /\ inv[i].bgImagePath = WebpPath) =>
      /\ inv[i].fallback = "loaded" => inv[i].result = "resolved"
      /\ inv[i].fallback = "failed" => inv[i].result = "rejected"

\* C2: whatever the outcome of the image loads of the preload awaited by the
\* DOMContentLoaded handler, once they have all finished the header, modal,
\* AOS and resize wiring has been installed.
C2_InitRunsAfterLoads ==
  \A i \in Invocations :
    ( /\ inv[i].caller = "dcl"
      /\ inv[i].primary \in {"loaded", "failed"}
      /\ inv[i].fallback # "pending" ) =>
      {"header", "modal", "aos", "resize"} \subseteq installed

\* C3: no step starts a preload invocation while .point_box already carries
\* the bg-loaded class, at any of the four call sites.
C3_NoStartWhenLoaded ==
  [][Len(inv') > Len(inv) => "bg-loaded" \notin pointBox.classList]_vars

\* C4: when the format probe returned false, the resource hint and every
\* image load of the invocation target the legacy .jpg path and none targets
\* a .webp path.
C4_ProbeFalseNeverWebp ==
  \A i \in Invocations :
    (inv[i].probe = "done" /\ ~inv[i].isWebPSupported) =>
      /\ inv[i].preloadLink = JpgPath
      /\ \A k \in DOMAIN inv[i].loads :
           inv[i].loads[k] = JpgPath /\ ~includes(inv[i].loads[k], ".webp")

C4_Witness ==
  \E i, j \in Invocations :
    /\ inv[i].probe = "done" /\ ~inv[i].isWebPSupported
    /\ inv[i].primary = "failed"
    /\ inv[j].probe = "done" /\ ~inv[j].isWebPSupported
    /\ inv[j].primary = "loaded"

\* C5: when the probe returned true and the primary load has failed, the
\* invocation has issued exactly the primary load and one fallback load to
\* the legacy path, and issues no further load whatever the fallback does.
C5_ExactlyOneFallback ==
  \A i \in Invocations :
    (inv[i].isWebPSupported /\ inv[i].primary = "failed") =>
      /\ inv[i].loads = <<WebpPath, JpgPath>>
      /\ inv[i].fallback \in {"pending", "loaded", "failed"}

C5_Witness ==
  \E i, j \in Invocations :
    /\ inv[i].isWebPSupported /\ inv[i].primary = "failed"
    /\ inv[i].fallback = "failed"
    /\ inv[j].isWebPSupported /\ inv[j].primary = "failed"
    /\ inv[j].fallback = "loaded"

\* C6: the primary load and the fallback load of one invocation are never
\* both pending, and a fallback load exists only once the primary has failed.
C6_FallbackAfterPrimaryFailure ==
  \A i \in Invocations :
    /\ ~(inv[i].primary = "pending" /\ inv[i].fallback = "pending")
    /\ inv[i].fallback # "none" => inv[i].primary = "failed"

C6_Witness ==
  \E i \in Invocations : inv[i].fallback = "pending"

\* C7: when the load that failed is the legacy path (probe false), the
\* invocation is rejected and has started no fallback load.
C7_LegacyFailureRejects ==
  \A i \in Invocations :
    (inv[i].probe = "done" /\ ~inv[i].isWebPSupported
       /\ inv[i].primary = "failed") =>
      /\ inv[i].result = "rejected"
      /\ inv[i].fallback = "none"
      /\ inv[i].loads = <<JpgPath>>

C7_Witness ==
  \E i \in Invocations :
    /\ inv[i].bgImagePath = JpgPath
    /\ inv[i].primary = "failed"
    /\ inv[i].result = "rejected"

\* C8: a rejected invocation crashes no caller: the continuation awaiting it
\* does not throw (the observer callback reaches unobserve) and the rejection
\* is not left unhandled.
C8_RejectionCrashesNoCaller ==
  \A i \in Invocations :
    inv[i].result = "rejected" =>
      /\ inv[i].continuation # "threw"
      /\ i \notin unhandled

\* C9: under the file: protocol every invocation is skipped: no probe, no
\* resource hint, no image load, no error, and the style and class the
\* preload writes on .point_box are untouched.
C9_FileProtocolSkips ==
  protocol = "file:" =>
    /\ \A i \in Invocations :
         /\ inv[i].result = "skipped"
         /\ inv[i].probe = "none"
         /\ inv[i].preloadLink = NoPath
         /\ inv[i].loads = <<>>
         /\ inv[i].primary = "none" /\ inv[i].fallback = "none"
         /\ inv[i].continuation # "threw"
    /\ unhandled = {}
    /\ "bg-loaded" \notin pointBox.classList
    /\ pointBox.style.backgroundImage = <<>>
    /\ pointBox.style.willChange = ""
    /\ pointBox.style.transform = ""
    /\ willChangeTimers = 0

C9_Witness ==
  /\ protocol = "file:"
  /\ hasPointBox
  /\ \E i, j \in Invocations :
       /\ inv[i].caller = "dcl" /\ inv[i].result = "skipped"
       /\ inv[j].caller = "observer" /\ inv[j].result = "skipped"

\* C10: .point_box is marked bg-loaded, gets a background image or a
\* will-change timer only in a step where an image onload fires, and then
\* the background image is the path that loaded and will-change is set; with
\* no 1000ms timer pending after an apply, will-change is 'auto'.
C10_AppliedOnlyOnLoadSuccess ==
  /\ [][ ( \/ pointBox'.classList \ pointBox.classList # {} /\
              "bg-loaded" \in pointBox'.classList \ pointBox.classList
           \/ pointBox'.style.backgroundImage # pointBox.style.backgroundImage
           \/ willChangeTimers' > willChangeTimers ) =>
         /\ "bg-loaded" \in pointBox'.classList
         /\ pointBox'.style.willChange = "background-image"
         /\ willChangeTimers' = willChangeTimers + 1
         /\ \E i \in Invocations :
              \/ /\ PrimarySucceeds(i)
                 /\ pointBox'.style.backgroundImage = Url(inv[i].bgImagePath)
              \/ /\ FallbackSucceeds(i)
                 /\ pointBox'.style.backgroundImage = Url(inv[i].fallbackPath)
       ]_vars
  /\ [][ (hasPointBox /\ \E i \in Invocations :
                           PrimarySucceeds(i) \/ FallbackSucceeds(i)) =>
         "bg-loaded" \in pointBox'.classList ]_vars
  /\ []( "bg-loaded" \in pointBox.classList =>
           /\ pointBox.style.willChange \in {"background-image", "auto"}
           /\ willChangeTimers = 0 => pointBox.style.willChange = "auto" )

C10_Witness ==
  /\ "bg-loaded" \in pointBox.classList
  /\ pointBox.style.backgroundImage = Url(JpgPath)
  /\ pointBox.style.willChange = "auto"
  /\ willChangeTimers = 0
  /\ \E i \in Invocations : inv[i].fallback = "loaded"

\* C11: overlapping invocations do not cancel one another: a step of one
\* invocation leaves every other invocation as it was, a pending load can
\* always still deliver its callback, and every onload overwrites the
\* background image with its own path, so the last onload to fire decides it.
C11_LastWriterWins ==
  /\ [][ \A i \in Invocations : \A j \in Invocations \ {i} :
           inv'[i] # inv[i] => inv'[j] = inv[j] ]_vars
  /\ [][ \A i \in Invocations :
           /\ (hasPointBox /\ PrimarySucceeds(i)) =>
                pointBox'.style.backgroundImage = Url(inv[i].bgImagePath)
           /\ (hasPointBox /\ FallbackSucceeds(i)) =>
                pointBox'.style.backgroundImage = Url(inv[i].fallbackPath) ]_vars
  /\ [][ pointBox'.style.backgroundImage # pointBox.style.backgroundImage =>
           \E i \in Invocations : PrimarySucceeds(i) \/ FallbackSucceeds(i) ]_vars
  /\ []( \A i \in Invocations :
           /\ inv[i].primary = "pending" =>
                ENABLED PrimaryOnload(i) /\ ENABLED PrimaryOnerror(i)
           /\ inv[i].fallback = "pending" => ENABLED FallbackOnload(i) )

\* invocation i applied the modern path, invocation j (started by a guarded
\* caller, so before i applied) later applied the legacy fallback over it
C11_Witness ==
  \E i, j \in Invocations :
    /\ i # j
    /\ inv[i].primary = "loaded" /\ inv[i].bgImagePath = WebpPath
    /\ inv[j].caller \in {"load", "visibility"}
    /\ inv[j].fallback = "loaded"
    /\ pointBox.style.backgroundImage = Url(JpgPath)

\* ------------------------------------------------ point projector claims

\* the elements initPointAnimation works on, and the radius of the
\* ScrollTrigger created last
PointIndexes == 0..(pointTextsLength - 1)
LastRadius == triggers[Len(triggers)].radius

\* C12: in every state the radius each installed update step reads is the
\* radius mapper's value for the current viewport width.
C12_RadiusFollowsWidth ==
  \A t \in 1..Len(triggers) : triggers[t].radius = getPointRadius

\* C13: with exactly one text element, setup and every update write the
\* angle-0 pose (y = 0, z = radius, rotateX = 0) and never a NaN.
C13_SingleTextAngleZero ==
  (pointTextsLength = 1 /\ lastOp \in {"setup", "update"}) =>
    /\ texts[0].y = Coord(0, 0)
    /\ texts[0].z = Coord(2 * LastRadius, 0)
    /\ texts[0].rotateX = Num(0)

\* C14: however often initPointAnimation is invoked, exactly one scroll
\* observer is registered and a tick sets the pose of each element once.
C14_InitIdempotent ==
  /\ Len(triggers) <= 1
  /\ lastOp = "update" => \A index \in PointIndexes : texts[index].sets = 1

\* C15: a call of initPointAnimation made while gsap or ScrollTrigger is
\* undefined takes the diagnostic return: it writes no pose and registers no
\* scroll observer.
C15_NoLibrariesNoInstall ==
  [][ ( /\ initCalls' > initCalls
        /\ ("gsap" \notin libs \/ "ScrollTrigger" \notin libs) ) =>
      /\ texts' = texts
      /\ triggers' = triggers
      /\ lastOp' = "notLoaded" ]_vars

C15_Witness ==
  /\ lastOp = "notLoaded"
  /\ numTexts >= 1
  /\ triggers = <<>>
  /\ \A index \in DOMAIN texts : texts[index] = TextAtRest

\* the radius the specification gives for viewport width w
SpecRadius(w) ==
  CASE w <= 480 -> 70
    [] w > 480 /\ w <= 768 -> 75
    [] w > 768 /\ w <= 1200 -> 100
    [] OTHER -> 120

\* C16: the radius computed at setup is 70 up to width 480, 75 up to 768,
\* 100 up to 1200 and 120 above (480->70, 481->75, 768->75, 769->100,
\* 1200->100, 1201->120), and computing it changes no width.
C16_RadiusStepwise ==
  [][ Len(triggers') > Len(triggers) =>
      LET r == triggers'[Len(triggers')].radius
      IN /\ r = SpecRadius(innerWidth)
         /\ innerWidth = 480 => r = 70
         /\ innerWidth = 481 => r = 75
         /\ innerWidth = 768 => r = 75
         /\ innerWidth = 769 => r = 100
         /\ innerWidth = 1200 => r = 100
         /\ innerWidth = 1201 => r = 120
         /\ innerWidth' = innerWidth ]_vars

C16_Witness ==
  /\ Len(triggers) = 2
  /\ triggers[1].radius = 75
  /\ triggers[2].radius = 100
  /\ innerWidth = 769

\* the documented initial pose of element index among N, with radius R
InitialPose(index, N, R) ==
  LET baseAngle == Num((index * UnitsPerPi) \div (N - 1))
  IN [y |-> jsScale(jsSin(baseAngle), R),
      z |-> jsScale(jsCos(baseAngle), R),
      rotateX |-> Num(-((baseAngle.v * DegPerPi) \div UnitsPerPi))]

PoseOf(t) == [y |-> t.y, z |-> t.z, rotateX |-> t.rotateX]

\* C17: for N >= 2 the pose an update writes at progress 0 is the pose setup
\* writes: the documented initial pose of each element, for the radius of
\* that setup.
C17_ProgressZeroIsInitialPose ==
  ( /\ pointTextsLength >= 2
    /\ \/ lastOp = "setup"
       \/ lastOp = "update" /\ progress = 0 ) =>
    /\ \A index \in PointIndexes :
         PoseOf(texts[index]) = InitialPose(index, pointTextsLength, LastRadius)
    /\ PoseOf(texts[0]) =
         [y |-> Coord(0, 0), z |-> Coord(2 * LastRadius, 0), rotateX |-> Num(0)]
    /\ PoseOf(texts[pointTextsLength - 1]) =
         [y |-> Coord(0, 0), z |-> Coord(-2 * LastRadius, 0),
          rotateX |-> Num(-180)]

C17_Witness ==
  /\ pointTextsLength = 4
  /\ lastOp = "update"
  /\ progress = 0
  /\ texts[1].y = Coord(0, LastRadius)
  /\ LastRadius = getPointRadius

\* C18: a progress value delivered again after other ticks writes the pose
\* and focus flag it wrote the first time, on every element.
C18_SameProgressSameWrite ==
  (lastOp = "update" /\ remembered.progress = progress) =>
    \A index \in DOMAIN texts :
      /\ PoseOf(texts[index]) = PoseOf(remembered.texts[index])
      /\ texts[index].focus = remembered.texts[index].focus

C18_Witness ==
  /\ lastOp = "update"
  /\ pointTextsLength = 4
  /\ remembered.progress = progress
  /\ remembered.stage = 2

\* the normalized current angle of element index among N >= 2 at progress
\* k / 6 is within 0.3 rad of the front position
InFocusWindow(index, N, k) ==
  LET normalized == (((index * UnitsPerPi) \div (N - 1)) - k) % (2 * UnitsPerPi)
  IN \/ normalized * MicroRadPerUnit < FocusWindow
     \/ normalized * MicroRadPerUnit > 2 * UnitsPerPi * MicroRadPerUnit - FocusWindow

C20_UniformRotation ==
  (lastOp = "update" /\ pointTextsLength >= 2) =>
    LET N == pointTextsLength
        base(index) == (index * UnitsPerPi) \div (N - 1)
        AtZero(index) ==
          PoseOf(texts[index]) =
            [y |-> Coord(0, 0), z |-> Coord(2 * LastRadius, 0),
             rotateX |-> Num(0)]
    IN /\ \A index \in PointIndexes :
            texts[index].rotateX = Num(-((base(index) - progress) * 30))
       /\ \A i, j \in PointIndexes :
            texts[j].rotateX.v - texts[i].rotateX.v = -((base(j) - base(i)) * 30)
       /\ \A index \in PointIndexes :
            progress * (N - 1) = index * UnitsPerPi => AtZero(index)
       /\ progress = UnitsPerPi => AtZero(N - 1)

C20_Witness ==
  /\ lastOp = "update"
  /\ pointTextsLength = 3
  /\ progress = 3
  /\ texts[1].rotateX = Num(0)
  /\ texts[2].rotateX = Num(-90)

\* ------------------------------------------------ readiness wait claims

\* waitForLibraries has not resolved yet
Waiting == dclPc \in {"idle", "waitLibs"}

\* C21: the readiness wait resolves only in a step taken with gsap,
\* ScrollTrigger and AOS all defined; a failed check leaves one 100ms timer
\* pending, a check that finds all three resolves, the wait resolves at most
\* once, and no timer is pending after it resolved.
C21_WaitResolvesWhenAllPresent ==
  /\ [][ (Waiting /\ ~Waiting') => (Libraries \subseteq libs /\ ~pollTimer') ]_vars
  /\ [][ ~Waiting => (~Waiting' /\ ~pollTimer') ]_vars
  /\ [](pollTimer <=> dclPc = "waitLibs")
  /\ []( (dclPc = "idle" /\ ~(Libraries \subseteq libs)) =>
           ENABLED (DOMContentLoaded /\ pollTimer' /\ dclPc' = "waitLibs") )
  /\ []( (dclPc = "idle" /\ Libraries \subseteq libs) =>
           ~ENABLED (DOMContentLoaded /\ Waiting') )
  /\ []( (pollTimer /\ Libraries \subseteq libs) =>
           /\ ENABLED (PollTimerFires /\ ~Waiting')
           /\ ~ENABLED (PollTimerFires /\ Waiting') )
  /\ []( (pollTimer /\ ~(Libraries \subseteq libs)) =>
           ~ENABLED (PollTimerFires /\ ~Waiting') )

C21_Witness ==
  /\ ~Waiting
  /\ ~pollTimer
  /\ Libraries \subseteq libs
  /\ loadFired

\* C23: while one of the three libraries is missing, none of plugin
\* registration, the handler's preload, the observer, header, modal, AOS and
\* animation wiring has run: the handler is still at the wait, its next check
\* is scheduled whenever it has checked, and nothing is installed.
C23_NoInitWithoutLibraries ==
  ~(Libraries \subseteq libs) =>
    /\ Waiting
    /\ dclPc = "waitLibs" => pollTimer
    /\ installed = {}
    /\ ~observing
    /\ \A i \in Invocations : inv[i].caller \notin {"dcl", "observer"}
    /\ pointBox.style.backgroundColor = ""

C23_Witness ==
  /\ ~(Libraries \subseteq libs)
  /\ dclPc = "waitLibs"
  /\ pollTimer
  /\ loadFired
  /\ installed = {}

\* C24: at most one invocation of aggressivePreloadImages is ever made by
\* the pointObserver callback.
C24_ObserverPreloadOnce ==
  Cardinality({i \in Invocations : inv[i].caller = "observer"}) <= 1

\* the elements carrying the focus class
Focused == {index \in PointIndexes : texts[index].focus}

\* C28: with two to four elements, at most one element carries the focus
\* class after a tick.
C28_AtMostOneFocus ==
  (lastOp = "update" /\ pointTextsLength >= 2) => Cardinality(Focused) <= 1

\* a tick after which no element is in focus, and the elements on either
\* side of the front position are one neighbour gap apart
C28_Witness ==
  /\ lastOp = "update"
  /\ pointTextsLength = 4
  /\ progress = 1
  /\ Focused = {}
  /\ texts[0].rotateX = Num(30)
  /\ texts[1].rotateX = Num(-30)

\* -------------------------------------------------------- header claims

\* the icon and label shown for the menu state
MenuLooksOpen ==
  /\ header.hamIcon = [src |-> CloseBtnPng, alt |-> AltClose]
  /\ header.ariaLabel = LabelClose
MenuLooksClosed ==
  /\ header.hamIcon = [src |-> HamBtnPng, alt |-> AltButton]
  /\ header.ariaLabel = LabelOpen

\* C25: isMenuOpen is true exactly when .ham_gnb has the class active; after
\* every click on the button or on a menu link the icon and aria-label are
\* the close ones when the menu is open and the open ones when it is closed;
\* a click on a menu link leaves the menu closed.
C25_MenuFlagMatchesPanel ==
  /\ [](header.isMenuOpen <=> "active" \in header.hamGnb)
  /\ [][ (HamBtnClick \/ MenuLinkClick) =>
         (IF header.isMenuOpen THEN MenuLooksOpen ELSE MenuLooksClosed)' ]_vars
  /\ [][ MenuLinkClick => (~header.isMenuOpen /\ "active" \notin header.hamGnb)' ]_vars
  /\ [][ HamBtnClick => header'.isMenuOpen = ~header.isMenuOpen ]_vars

C25_Witness ==
  /\ ~header.isMenuOpen
  /\ MenuLooksClosed
  /\ header.style.backgroundColor = "transparent"
  /\ header.zone = "top"

\* --------------------------------------------------------- modal claims

\* the string has a character that is not a blank
NonBlank(str) == \E k \in DOMAIN str : str[k] # " "

FormValid ==
  /\ modal.consultType # ""
  /\ NonBlank(modal.inputName)
  /\ NonBlank(modal.inputPhone)
  /\ modal.agreeTwo
  /\ modal.agreeThird

FirstFailing ==
  CASE modal.consultType = "" -> MsgSelectType
    [] modal.consultType # "" /\ ~NonBlank(modal.inputName) -> MsgEnterName
    [] modal.consultType # "" /\ NonBlank(modal.inputName)
         /\ ~NonBlank(modal.inputPhone) -> MsgEnterPhone
    [] OTHER -> MsgAgreeTerms

\* C22: a click on submit closes the modal and clears the form, after the
\* completion alert, only when the type is non-empty, name and phone are
\* non-blank and both required agreements are checked; otherwise it raises
\* exactly one alert, that of the first failing check in the order type,
\* name, phone, agreements, and changes nothing else.
C22_SubmitValidates ==
  /\ [][ SubmitClick =>
         IF FormValid
           THEN modal' = [ModalAtRest EXCEPT !.alerts = <<MsgCompleted>>]
           ELSE modal' = [modal EXCEPT !.alerts = <<FirstFailing>>] ]_vars
  /\ [][ (MsgCompleted \in {modal'.alerts[k] : k \in DOMAIN modal'.alerts}
          /\ modal' # modal) => FormValid ]_vars

C22_Witness ==
  /\ modal.alerts = <<MsgAgreeTerms>>
  /\ modal.active
  /\ modal.consultType = "insurance"
  /\ modal.inputName = <<" ", "k">>
  /\ modal.inputPhone = <<"0">>
  /\ modal.agreeTwo
  /\ ~modal.agreeThird

\* C26: the agree-all checkbox is checked exactly when both individual
\* agreement checkboxes are checked.
C26_AgreeAllIffBoth ==
  modal.agreeAll <=> (modal.agreeTwo /\ modal.agreeThird)

C26_Witness ==
  /\ modal.agreeTwo
  /\ ~modal.agreeThird
  /\ ~modal.agreeAll
  /\ modal.active
  /\ modal.alerts = <<>>

\* C27: the body's overflow is hidden exactly when the modal has the class
\* active; Escape changes nothing while the modal is not active; every step
\* that removes the class leaves type, name and phone empty and the three
\* checkboxes unchecked.
C27_ScrollLockIffActive ==
  /\ [](modal.overflow = "hidden" <=> modal.active)
  /\ [](~modal.active =>
          ~ENABLED (EscapeKey /\ [modal' EXCEPT !.alerts = <<>>]
                                 # [modal EXCEPT !.alerts = <<>>]))
  /\ [][ (modal.active /\ ~modal'.active) =>
         [modal' EXCEPT !.alerts = <<>>] = ModalAtRest ]_vars
  /\ [][ (CloseBtnClick \/ ModalBgClick \/ (EscapeKey /\ modal.active)) =>
         modal' = ModalAtRest ]_vars

C27_Witness ==
  /\ ~modal.active
  /\ modal.overflow = ""
  /\ modal.alerts = <<MsgCompleted>>

\* ------------------------------------------------------ throttle claims

\* a step in which the throttled handleResize is called
ResizeCalled == \E w \in MemoryWidths : ResizeEvent(w)

\* C29: the first call of the throttled function runs it; a later call runs
\* it exactly when at least the delay has passed since the last call that
\* ran; a call that does not run it leaves nothing behind, and the function
\* runs in no step other than a call.
C29_ThrottleDropsCalls ==
  /\ [][ (ResizeCalled /\ throttled.outcome = "none") =>
         throttled'.outcome = "ran" ]_vars
  /\ [][ ResizeCalled =>
         IF throttled.now - throttled.lastCall >= ResizeDelay
           THEN /\ throttled'.outcome = "ran"
                /\ throttled'.refreshes = throttled.refreshes + 1
                /\ throttled'.lastCall = throttled.now
           ELSE /\ throttled'.outcome = "dropped"
                /\ throttled'.refreshes = throttled.refreshes
                /\ throttled'.lastCall = throttled.lastCall ]_vars
  /\ [][ throttled'.refreshes # throttled.refreshes => ResizeCalled ]_vars
  /\ [][ throttled'.lastCall # throttled.lastCall => ResizeCalled ]_vars

\* the last event of a burst was dropped and, two delays later, the function
\* has still run only for the first
C29_Witness ==
  /\ throttled.outcome = "dropped"
  /\ throttled.refreshes = 1
  /\ throttled.now - throttled.lastCall >= 2 * ResizeDelay
  /\ innerWidth = 480

\* --------------------------------------------------------- video claims

\* C30: an attempt whose play() was rejected listens for touchstart, click
\* and scroll until the first of them; that event retries play() once for
\* the attempt and leaves it listening for none, so no attempt is ever
\* retried twice.
C30_OneRetryPerAttempt ==
  /\ [](\A i \in DOMAIN video.attempts :
          LET a == video.attempts[i]
          IN /\ a.retries <= 1
             /\ a.listeners # {} =>
                  (a.listeners = InteractionEvents /\ a.play = "rejected"
                     /\ a.retries = 0)
             /\ a.retries = 1 => (a.listeners = {} /\ a.play = "rejected"))
  /\ [][ \A e \in InteractionEvents : \A i \in DOMAIN video.attempts :
           (Interaction(e) /\ e \in video.attempts[i].listeners) =>
             /\ video'.attempts[i].retries = 1
             /\ video'.attempts[i].retry = "pending"
             /\ video'.attempts[i].listeners = {} ]_vars
  /\ [][ \A i \in DOMAIN video.attempts :
           video'.attempts[i].retries # video.attempts[i].retries =>
             \E e \in InteractionEvents : Interaction(e) ]_vars

C30_Witness ==
  \E i, j \in DOMAIN video.attempts :
    /\ video.attempts[i].retries = 1
    /\ video.attempts[i].retry = "rejected"
    /\ video.attempts[i].listeners = {}
    /\ video.attempts[j].play = "rejected"
    /\ video.attempts[j].listeners = InteractionEvents

\* C31: whenever hideVideoControls has run since the last change from
\* outside, the video has no controls attribute; after such a change the
\* observer runs hideVideoControls at most twice, and after the second run
\* no record is queued, so it is not called again.
C31_HidingReachesFixedPoint ==
  /\ video.hides > 0 => "controls" \notin video.attributes
  /\ quiet => "controls" \notin video.attributes
  /\ video.hides <= 2
  /\ video.hides = 2 => (quiet /\ ~ENABLED ObserverCallback)
  /\ video.records <= 1

C31_Witness ==
  /\ video.hides = 2
  /\ quiet
  /\ "controls" \notin video.attributes
  /\ Len(video.attempts) >= 1

\* ------------------------------------------------------ debounce claims

\* C32: the wrapped function has run at most once since the last call, and
\* only at least delay ms after it, with that call's arguments; until it
\* runs exactly one timer is pending, due delay ms after the last call and
\* holding its arguments, and once it has run none is.
C32_DebounceRunsLastCall ==
  debounced.calls > 0 =>
    /\ debounced.runs <= 1
    /\ debounced.runs = 0 =>
         debounced.timers =
           {[id |-> debounced.calls,
             due |-> debounced.lastCall.at + debounced.delay,
             args |-> debounced.lastCall.args]}
    /\ debounced.runs = 1 =>
         /\ debounced.timers = {}
         /\ debounced.lastRun.args = debounced.lastCall.args
         /\ debounced.lastRun.at >= debounced.lastCall.at + debounced.delay

\* a burst of two calls with different arguments, run once with the second's
C32_Witness ==
  /\ debounced.calls = 2
  /\ debounced.runs = 1
  /\ debounced.lastRun.args = "second"
  /\ debounced.lastCall.at > 0
  /\ debounced.lastCall.at < debounced.delay

====
